---- MODULE Spec2Model ----
(***************************************************************************)
(* Model of SubjectRefiner (src/wasm/src/lib.rs): the mask refinement      *)
(* pipeline refine_mask with its history buffer, the disk-kernel erode and *)
(* dilate operators and the seeded flood fill.                             *)
(*                                                                         *)
(* Conventions.                                                            *)
(*  - A Vec / slice of length n is a function with domain 0..n-1 (the      *)
(*    code's zero-based indices are kept).                                 *)
(*  - An f32 confidence value v is the integer 100*v (0.8 is 80); the      *)
(*    values used are 0.0, 0.1, 0.8 and 1.0.                                *)
(*  - averaged_mask[i] = sum over the history of h[i]/history_len is kept  *)
(*    as the numerator sum(h[i]) over the denominator history_len; the     *)
(*    value domain keeps every average at least 0.03 away from the 0.5     *)
(*    threshold unless it is exactly 0.5 = 1.0/2 + 0.0/2, which f32        *)
(*    computes exactly, so f32 rounding never decides a comparison.        *)
(*  - A click coordinate is a number of halves (click 1 is 0.5).           *)
(***************************************************************************)
EXTENDS Integers, Sequences, FiniteSets

VARIABLES
  width, height, max_history, history,   \* fields of SubjectRefiner
  valid_log,      \* every valid-size mask submitted so far, oldest first
  pc,             \* position of the caller / of flood_fill
  input_mask, click_x, click_y,          \* arguments of the call in progress
  hist_before,    \* self.history when the call was entered
  result,         \* what the call returned
  eroded, isolated, dilated,             \* locals of refine_mask
  img, radius,    \* arguments of erode / dilate / flood_fill
  start_x, start_y, q, out,              \* flood_fill's arguments and locals
  expanded,       \* how often each pixel was marked by flood_fill's loop
  morph_op, morph_out                    \* last morphology call and its result

vars == <<width, height, max_history, history, valid_log, pc, input_mask,
          click_x, click_y, hist_before, result, eroded,
          isolated, dilated, img, radius, start_x, start_y, q, out,
          expanded, morph_op, morph_out>>

----------------------------------------------------------------------------
(* Bounds of the model *)

\* max_history is drawn from 0..MaxHistory.
MaxHistory == 2
\* Valid-size calls made on one processor.
MaxValidCalls == 3
\* flood_fill runs on every grid of at most MaxCells pixels, with every
\* binary image,
MaxCells == 6
\* and on a one-row grid wider than the cap of the seed search, with the
\* images of at most MaxFg foreground pixels.
StripW == 22
MaxFg == 1
\* erode runs on the grids up to MorphSide x MorphSide, with a radius in
\* 0..MaxRadius, on the images of at most MaxHoles background pixels.
MorphSide == 5
MaxRadius == 2
MaxHoles == 1

----------------------------------------------------------------------------
(* Vectors *)

VecLen(v) == Cardinality(DOMAIN v)

\* The vector v with every element computed (v itself, as a value).
Vec(v) == IF v = v THEN v ELSE v

Zeros(n) == Vec([i \in 0..(n - 1) |-> 0])
Abs(a) == IF a < 0 THEN 0 - a ELSE a

\* `f as usize` for the f32 num/den: truncation toward zero, saturating at 0
\* for a negative value.
AsUsize(num, den) == IF num < 0 THEN 0 ELSE num \div den

----------------------------------------------------------------------------
(* Morphology: lib.rs erode, dilate *)

InDisk(dx, dy, r) == dx * dx + dy * dy <= r * r

InGrid(w, h, nx, ny) == nx >= 0 /\ nx < w /\ ny >= 0 /\ ny < h

Offsets(r) == {d \in ((0 - r)..r) \X ((0 - r)..r) : InDisk(d[1], d[2], r)}

\* erode with out-of-grid neighbours skipped, as dilate skips them.
erode_SkipOutside(w, h, im, r) ==
  LET kernel == Vec(Offsets(r))
  IN Vec([i \in 0..(VecLen(im) - 1) |->
       LET x == i % w
           y == i \div w
       IN IF i >= w * h THEN 0
          ELSE IF \A d \in kernel :
                    InGrid(w, h, x + d[1], y + d[2])
                      => im[(y + d[2]) * w + (x + d[1])] # 0
               THEN 1 ELSE 0])
erode(w, h, im, r) ==
  LET kernel == Vec(Offsets(r))
  IN Vec([i \in 0..(VecLen(im) - 1) |->
       LET x == i % w
           y == i \div w
       IN IF i >= w * h THEN 0
          ELSE IF \A d \in kernel :
                    /\ InGrid(w, h, x + d[1], y + d[2])
                    /\ im[(y + d[2]) * w + (x + d[1])] # 0
               THEN 1 ELSE 0])

dilate(w, h, im, r) ==
  LET fg == {p \in 0..(w * h - 1) : im[p] = 1}
  IN Vec([i \in 0..(VecLen(im) - 1) |->
        LET nx == i % w
            ny == i \div w
        IN IF i < w * h /\ \E p \in fg :
                InDisk(nx - (p % w), ny - (p \div w), r)
           THEN 1 ELSE 0])

----------------------------------------------------------------------------
(* Region isolation: lib.rs flood_fill *)

search_radius == 20

\* The foreground pixels <<ny, nx>> of the grid.
Foreground(w, h, im) ==
  Vec({p \in (0..(h - 1)) \X (0..(w - 1)) : im[p[1] * w + p[2]] = 1})

\* The foreground pixels that the scan of the square of Chebyshev radius r
\* around the start visits (the scan's in-grid test holds of every pixel of
\* fg).
SquareHits(fg, sx, sy, r) ==
  {p \in fg : Abs(p[1] - sy) <= r /\ Abs(p[2] - sx) <= r}

\* The first hit of a scan with the two loops exchanged.
FirstHit_ColumnFirst(hits) ==
  CHOOSE p \in hits :
    \A p2 \in hits : p[2] < p2[2] \/ (p[2] = p2[2] /\ p[1] <= p2[1])
\* The first hit of the scan `for dy in -r..=r { for dx in -r..=r`.
FirstHit(hits) ==
  CHOOSE p \in hits :
    \A p2 \in hits : p[1] < p2[1] \/ (p[1] = p2[1] /\ p[2] <= p2[2])

\* `for r in 1..=radius` from r on: the queue once the scan stops.
RECURSIVE SearchFrom(_, _, _, _)
SearchFrom(fg, sx, sy, r) ==
  IF r > search_radius THEN <<>>
  ELSE LET hits == SquareHits(fg, sx, sy, r)
       IN IF hits # {}
          THEN LET p == FirstHit(hits) IN << <<p[2], p[1]>> >>
          ELSE SearchFrom(fg, sx, sy, r + 1)

\* The queue before the loop: the start pixel, the nearest foreground pixel,
\* or nothing (the early return).
FloodSeed(w, h, im, sx, sy) ==
  IF im[sy * w + sx] = 1 THEN << <<sx, sy>> >>
  ELSE SearchFrom(Foreground(w, h, im), sx, sy, 1)

\* The iteration without the push of the left neighbour.
FloodIter_NoLeft(w, h, im, st) ==
  LET x == Head(st.q)[1]
      y == Head(st.q)[2]
      idx == y * w + x
      rest == Tail(st.q)
  IN IF st.out[idx] = 0 /\ im[idx] = 1
     THEN [out |-> [st.out EXCEPT ![idx] = 1],
           q |-> rest
                 \o (IF x < w - 1 THEN << <<x + 1, y>> >> ELSE <<>>)
                 \o (IF y > 0 THEN << <<x, y - 1>> >> ELSE <<>>)
                 \o (IF y < h - 1 THEN << <<x, y + 1>> >> ELSE <<>>)]
     ELSE [out |-> st.out, q |-> rest]
\* The iteration without the test that the pixel is not marked yet.
FloodIter_NoVisited(w, h, im, st) ==
  LET x == Head(st.q)[1]
      y == Head(st.q)[2]
      idx == y * w + x
      rest == Tail(st.q)
  IN IF im[idx] = 1
     THEN [out |-> [st.out EXCEPT ![idx] = 1],
           q |-> rest
                 \o (IF x > 0 THEN << <<x - 1, y>> >> ELSE <<>>)
                 \o (IF x < w - 1 THEN << <<x + 1, y>> >> ELSE <<>>)
                 \o (IF y > 0 THEN << <<x, y - 1>> >> ELSE <<>>)
                 \o (IF y < h - 1 THEN << <<x, y + 1>> >> ELSE <<>>)]
     ELSE [out |-> st.out, q |-> rest]
\* One iteration of `while let Some((x, y)) = q.pop_front()`.
FloodIter(w, h, im, st) ==
  LET x == Head(st.q)[1]
      y == Head(st.q)[2]
      idx == y * w + x
      rest == Tail(st.q)
  IN IF st.out[idx] = 0 /\ im[idx] = 1
     THEN [out |-> [st.out EXCEPT ![idx] = 1],
           q |-> rest
                 \o (IF x > 0 THEN << <<x - 1, y>> >> ELSE <<>>)
                 \o (IF x < w - 1 THEN << <<x + 1, y>> >> ELSE <<>>)
                 \o (IF y > 0 THEN << <<x, y - 1>> >> ELSE <<>>)
                 \o (IF y < h - 1 THEN << <<x, y + 1>> >> ELSE <<>>)]
     ELSE [out |-> st.out, q |-> rest]

RECURSIVE FloodLoop(_, _, _, _)
FloodLoop(w, h, im, st) ==
  IF st.q = <<>> THEN st.out ELSE FloodLoop(w, h, im, FloodIter(w, h, im, st))

flood_fill(w, h, im, o, sx, sy) ==
  FloodLoop(w, h, im, [out |-> o, q |-> FloodSeed(w, h, im, sx, sy)])

----------------------------------------------------------------------------
(* The pipeline: lib.rs refine_mask *)

threshold == 50
\* kernel_size read as the diameter of the kernel, not as its radius.
kernel_size_AsDiameter == (5 - 1) \div 2
kernel_size == 5

\* The size-mismatch fallback: input_mask.to_vec().
Fallback_Zeroed(mask) == Vec([i \in DOMAIN mask |-> 0])
Fallback(mask) == mask

PushHistory_EvictAtBound(hist, mask, maxh) ==
  LET pushed == Append(hist, mask)
  IN IF Len(pushed) >= maxh THEN Tail(pushed) ELSE pushed
PushHistory(hist, mask, maxh) ==
  LET pushed == Append(hist, mask)
  IN IF Len(pushed) > maxh THEN Tail(pushed) ELSE pushed

RECURSIVE SumAt(_, _)
SumAt(hist, i) == IF hist = <<>> THEN 0 ELSE Head(hist)[i] + SumAt(Tail(hist), i)

\* Numerators of averaged_mask; the denominator is history_len.
Average(hist, size) == Vec([i \in 0..(size - 1) |-> SumAt(hist, i)])

Threshold(avg, history_len, size) ==
  Vec([i \in 0..(size - 1) |->
         IF avg[i] > threshold * history_len THEN 1 ELSE 0])

\* (click * dim as f32) as usize, the click given in halves.
ClickCell(click, dim) == AsUsize(click * dim, 2)

\* Isolation that also keeps the eroded mask when the clicked pixel is
\* background.
Isolate_KeepOnBackground(w, h, er, cx, cy) ==
  IF cx < w /\ cy < h /\ er[cy * w + cx] = 1
  THEN flood_fill(w, h, er, Zeros(w * h), cx, cy)
  ELSE er
Isolate(w, h, er, cx, cy) ==
  IF cx < w /\ cy < h
  THEN flood_fill(w, h, er, Zeros(w * h), cx, cy)
  ELSE er

Composite_NoCut(dil, mask, size) ==
  Vec([i \in 0..(size - 1) |-> IF dil[i] > 0 THEN mask[i] ELSE 0])
Composite(dil, mask, size) ==
  Vec([i \in 0..(size - 1) |->
         IF dil[i] > 0 /\ mask[i] > 10 THEN mask[i] ELSE 0])

----------------------------------------------------------------------------
(* Inputs of the pipeline *)

\* <<width, height, max_history>> the constructor is called with.
Configs == {<<10, 10, 1>>} \cup {<<11, 13, m>> : m \in 0..MaxHistory}

\* The masks submitted to a width x height processor.
MaskNames(w) == IF w = 10 THEN {"block", "full"} ELSE {"hot", "dim", "split"}

\* hot: 1.0 everywhere; full: 0.8 everywhere; dim: 0.1 everywhere;
\* split: 0.8 except 0.0 at column 0 of row 6; block: 0.8 on rows and
\* columns 2..7, 0.0 elsewhere.
MaskOf(name, w, h) ==
  Vec([i \in 0..(w * h - 1) |->
     LET x == i % w
         y == i \div w
     IN CASE name = "hot" -> 100
          [] name = "full" -> 80
          [] name = "dim" -> 10
          [] name = "split" -> IF x = 0 /\ y = 6 THEN 0 ELSE 80
          [] OTHER -> IF x >= 2 /\ x <= 7 /\ y >= 2 /\ y <= 7 THEN 80 ELSE 0])

ValidMasks(w, h) == {MaskOf(n, w, h) : n \in MaskNames(w)}

\* Masks one element too long and one too short.
WrongSizeMasks(w, h) ==
  {[i \in 0..(w * h) |-> 80], [i \in 0..(w * h - 2) |-> 10]}

\* Clicks <<click_x, click_y>> in halves: the centre, the corner 0, a
\* negative x, a negative y, x = 1.0 and y = 1.5.
Clicks == {<<1, 1>>, <<0, 0>>, <<-1, 0>>, <<1, -1>>, <<2, 1>>, <<1, 3>>}

----------------------------------------------------------------------------
(* Pipeline specification *)

NoVec == <<>>

KernelIdle ==
  /\ img = NoVec /\ radius = 0 /\ start_x = 0 /\ start_y = 0
  /\ q = <<>> /\ out = NoVec /\ expanded = NoVec
  /\ morph_op = "none" /\ morph_out = NoVec

CallIdle ==
  /\ input_mask = NoVec /\ click_x = 0 /\ click_y = 0
  /\ hist_before = <<>> /\ result = NoVec
  /\ eroded = NoVec /\ isolated = NoVec
  /\ dilated = NoVec

kernelVars == <<img, radius, start_x, start_y, q, out, expanded,
                morph_op, morph_out>>

\* SubjectRefiner::new
Init ==
  /\ \E c \in Configs : width = c[1] /\ height = c[2] /\ max_history = c[3]
  /\ history = <<>>
  /\ valid_log = <<>>
  /\ pc = "idle"
  /\ CallIdle
  /\ KernelIdle

\* SubjectRefiner::refine_mask, entry to return.
refine_mask(mask, cx, cy) ==
  LET size == width * height
  IN /\ pc = "idle"
     /\ pc' = "returned"
     /\ input_mask' = mask
     /\ click_x' = cx
     /\ click_y' = cy
     /\ hist_before' = history
     /\ IF VecLen(mask) # size
        THEN /\ result' = Fallback(mask)
             /\ UNCHANGED <<history, valid_log, eroded,
                            isolated, dilated>>
        ELSE LET hist == PushHistory(history, mask, max_history)
                 avg == Average(hist, size)
                 er == erode(width, height,
                             Threshold(avg, Len(hist), size), kernel_size)
                 iso == Isolate(width, height, er, ClickCell(cx, width),
                                ClickCell(cy, height))
                 dil == dilate(width, height, iso, kernel_size)
             IN /\ Len(valid_log) < MaxValidCalls
                /\ history' = hist
                /\ valid_log' = Append(valid_log, mask)
                /\ eroded' = er
                /\ isolated' = iso
                /\ dilated' = dil
                /\ result' = Composite(dil, mask, size)
     /\ UNCHANGED <<width, height, max_history>>
     /\ UNCHANGED kernelVars

Refine ==
  \E mask \in ValidMasks(width, height) \cup WrongSizeMasks(width, height) :
    \E c \in Clicks : refine_mask(mask, c[1], c[2])

\* The caller takes the returned Vec; the call's locals are gone.
Return ==
  /\ pc = "returned"
  /\ pc' = "idle"
  /\ input_mask' = NoVec /\ click_x' = 0 /\ click_y' = 0
  /\ hist_before' = <<>> /\ result' = NoVec
  /\ eroded' = NoVec /\ isolated' = NoVec
  /\ dilated' = NoVec
  /\ UNCHANGED <<width, height, max_history, history, valid_log>>
  /\ UNCHANGED kernelVars

Next == Refine \/ Return

Spec == Init /\ [][Next]_vars

----------------------------------------------------------------------------
(* flood_fill step by step *)

BinaryMasks(n) == {Vec(m) : m \in [0..(n - 1) -> {0, 1}]}

\* The subsets of S of at most k elements.
RECURSIVE UpTo(_, _)
UpTo(S, k) ==
  IF k = 0 THEN {{}}
  ELSE LET P == UpTo(S, k - 1)
       IN P \cup {T \cup {x} : T \in P, x \in S}

\* Masks of n pixels with at most k foreground pixels.
SparseMasks(n, k) ==
  {Vec([i \in 0..(n - 1) |-> IF i \in S THEN 1 ELSE 0]) :
     S \in UpTo(0..(n - 1), k)}

SmallShapes ==
  {s \in (1..MaxCells) \X (1..MaxCells) : s[1] * s[2] <= MaxCells}

CallerIdle ==
  /\ max_history = 0 /\ history = <<>> /\ valid_log = <<>>
  /\ CallIdle

callerVars == <<max_history, history, valid_log, input_mask, click_x,
                click_y, hist_before, result, eroded, isolated, dilated>>

\* flood_fill entered with a binary image, an all-zero out and an in-grid
\* start pixel.
FloodInit ==
  /\ \/ \E s \in SmallShapes :
          /\ width = s[1] /\ height = s[2]
          /\ img \in BinaryMasks(s[1] * s[2])
     \/ /\ width = StripW /\ height = 1
        /\ img \in SparseMasks(StripW, MaxFg)
  /\ start_x \in 0..(width - 1)
  /\ start_y \in 0..(height - 1)
  /\ out = Zeros(width * height)
  /\ expanded = Zeros(width * height)
  /\ q = <<>>
  /\ pc = "start"
  /\ radius = 0 /\ morph_op = "none" /\ morph_out = NoVec
  /\ CallerIdle

floodArgs == <<width, height, img, start_x, start_y, radius, morph_op,
               morph_out>>

\* Lines 153-182: the queue is seeded, or the function returns.
FloodBegin ==
  /\ pc = "start"
  /\ q' = FloodSeed(width, height, img, start_x, start_y)
  /\ pc' = IF q' = <<>> THEN "done" ELSE "loop"
  /\ UNCHANGED <<out, expanded>>
  /\ UNCHANGED floodArgs
  /\ UNCHANGED callerVars

\* One iteration of the while loop; the popped pixel counts as expanded when
\* it is marked or its neighbours are pushed.
FloodStep ==
  /\ pc = "loop"
  /\ q # <<>>
  /\ LET st == FloodIter(width, height, img, [out |-> out, q |-> q])
     IN /\ q' = st.q
        /\ out' = st.out
        /\ expanded' =
             [i \in DOMAIN expanded |->
                IF /\ i = Head(q)[2] * width + Head(q)[1]
                   /\ (st.out[i] # out[i] \/ Len(st.q) >= Len(q))
                THEN expanded[i] + 1 ELSE expanded[i]]
  /\ UNCHANGED pc
  /\ UNCHANGED floodArgs
  /\ UNCHANGED callerVars

\* pop_front returns None: the loop and the function end.
FloodEnd ==
  /\ pc = "loop"
  /\ q = <<>>
  /\ pc' = "done"
  /\ UNCHANGED <<q, out, expanded>>
  /\ UNCHANGED floodArgs
  /\ UNCHANGED callerVars

FloodNext == FloodBegin \/ FloodStep \/ FloodEnd

FloodSpec == FloodInit /\ [][FloodNext]_vars

\* The function runs without suspension: a step that can be taken is taken.
FairFloodSpec == FloodSpec /\ WF_vars(FloodNext)

----------------------------------------------------------------------------
(* erode on its own *)

\* Masks of n pixels with at most k background pixels.
HoleMasks(n, k) ==
  {Vec([i \in 0..(n - 1) |-> IF i \in S THEN 0 ELSE 1]) :
     S \in UpTo(0..(n - 1), k)}

MorphInit ==
  /\ width \in 1..MorphSide
  /\ height \in 1..MorphSide
  /\ img \in HoleMasks(width * height, MaxHoles)
  /\ radius = 0
  /\ morph_op = "none"
  /\ morph_out = NoVec
  /\ pc = "morph"
  /\ start_x = 0 /\ start_y = 0 /\ q = <<>> /\ out = NoVec
  /\ expanded = NoVec
  /\ CallerIdle

Erode ==
  /\ morph_op = "none"
  /\ \E r \in 0..MaxRadius :
       /\ radius' = r
       /\ morph_out' = erode(width, height, img, r)
  /\ morph_op' = "erode"
  /\ UNCHANGED <<width, height, img, pc, start_x, start_y, q, out, expanded>>
  /\ UNCHANGED callerVars

MorphNext == Erode

MorphSpec == MorphInit /\ [][MorphNext]_vars

----------------------------------------------------------------------------
(* Reference notions the properties are stated with *)

Min(a, b) == IF a < b THEN a ELSE b
Max(a, b) == IF a > b THEN a ELSE b

\* Pixels are <<x, y>>.
PixelOf(w, i) == <<i % w, i \div w>>
FgPixels(w, h, im) == {PixelOf(w, i) : i \in {j \in 0..(w * h - 1) : im[j] = 1}}
Indicator(w, h, S) ==
  [i \in 0..(w * h - 1) |-> IF PixelOf(w, i) \in S THEN 1 ELSE 0]

Adjacent4(p, s) == Abs(p[1] - s[1]) + Abs(p[2] - s[2]) = 1

\* The pixels of fg reachable from S by up/down/left/right steps inside fg.
RECURSIVE Reach(_, _)
Reach(fg, S) ==
  LET N == S \cup {p \in fg : \E s \in S : Adjacent4(p, s)}
  IN IF N = S THEN S ELSE Reach(fg, N)

Component4(w, h, im, seed) == Reach(FgPixels(w, h, im), {seed})

Cheb(p, sx, sy) == Max(Abs(p[1] - sx), Abs(p[2] - sy))

\* Foreground pixels at Chebyshev distance 1..20 of the start pixel.
InReach(w, h, im, sx, sy) ==
  {p \in FgPixels(w, h, im) :
     Cheb(p, sx, sy) >= 1 /\ Cheb(p, sx, sy) <= 20}

\* Nearest first; at equal distance the smallest row, then the smallest
\* column.
Before(p, p2, sx, sy) ==
  \/ Cheb(p, sx, sy) < Cheb(p2, sx, sy)
  \/ /\ Cheb(p, sx, sy) = Cheb(p2, sx, sy)
     /\ (p[2] < p2[2] \/ (p[2] = p2[2] /\ p[1] <= p2[1]))

NearestFg(w, h, im, sx, sy) ==
  CHOOSE p \in InReach(w, h, im, sx, sy) :
    \A p2 \in InReach(w, h, im, sx, sy) : Before(p, p2, sx, sy)

\* The component of the nearest foreground pixel, nothing if there is none.
NearestComponent(w, h, im, sx, sy) ==
  IF InReach(w, h, im, sx, sy) = {} THEN {}
  ELSE Component4(w, h, im, NearestFg(w, h, im, sx, sy))

----------------------------------------------------------------------------
(* Properties of the pipeline, under Spec *)

Returned == pc = "returned"
ValidCall == Returned /\ VecLen(input_mask) = width * height
clx == ClickCell(click_x, width)
cly == ClickCell(click_y, height)

\* C1: a call with a mask whose length differs from width*height returns
\* the input mask itself and leaves the history as it was.
C1_MismatchIdentity ==
  (Returned /\ VecLen(input_mask) # width * height)
    => (result = input_mask /\ history = hist_before)

C1_Witness ==
  /\ Returned
  /\ VecLen(input_mask) # width * height
  /\ Len(history) = 2
  /\ \E i \in DOMAIN input_mask : input_mask[i] # 0

\* C2: the history is the most recent min(N, max_history) valid-size masks
\* in submission order, N the number of valid-size calls so far; so it is
\* never longer than max_history and is max_history long once
\* N >= max_history.
C2_HistoryRecent ==
  LET n == Len(valid_log)
      k == Min(n, max_history)
  IN /\ history = SubSeq(valid_log, n - k + 1, n)
     /\ Len(history) <= max_history
     /\ (n >= max_history => Len(history) = max_history)

C2_Witness ==
  /\ max_history = 2
  /\ Len(valid_log) = 3
  /\ valid_log[1] # valid_log[2]
  /\ valid_log[2] # valid_log[3]
  /\ Returned
  /\ VecLen(input_mask) # width * height

\* A click coordinate (in halves) below 0, or mapping to an index >= dim.
Outside(c, dim) == c < 0 \/ c * dim >= 2 * dim

\* C3: for a valid-size mask and a click outside the grid (a coordinate
\* below 0, or one that maps to column >= width or row >= height) the
\* output is the composite of dilate(erode(threshold(averaged mask))), with
\* no narrowing to one connected component.
C3_OutsideClickFallsBack ==
  (ValidCall /\ (Outside(click_x, width) \/ Outside(click_y, height)))
    => LET size == width * height
           er == erode(width, height,
                       Threshold(Average(history, size), Len(history), size),
                       kernel_size)
       IN result = Composite(dilate(width, height, er, kernel_size),
                             input_mask, size)

\* C4 as claimed: for a click on an in-grid pixel that is background in the
\* eroded mask, the mask handed to dilation is the full eroded mask.
C4_BackgroundSeedKeepsEroded ==
  (ValidCall /\ clx < width /\ cly < height /\ eroded[cly * width + clx] = 0)
    => isolated = eroded

\* C4 as amended: for a click on an in-grid pixel that is background in the
\* eroded mask, the mask handed to dilation is the 4-connected component, in
\* the eroded mask, of the foreground pixel nearest to the click (Chebyshev
\* distance 1..20, then smallest row, then smallest column), and all
\* background when there is no such pixel.
C4_BackgroundSeedIsolatesNearest ==
  (ValidCall /\ clx < width /\ cly < height /\ eroded[cly * width + clx] = 0)
    => isolated = Indicator(width, height,
                            NearestComponent(width, height, eroded, clx, cly))

C4_Witness ==
  /\ ValidCall /\ clx < width /\ cly < height
  /\ eroded[cly * width + clx] = 0
  /\ isolated # eroded
  /\ \E i \in DOMAIN isolated : isolated[i] = 1

\* C5: a valid-size call returns width*height values, output[i] being the
\* call's input_mask[i] where dilated[i] = 1 and input_mask[i] > 0.1, and 0
\* elsewhere.
C5_CompositePassThrough ==
  ValidCall =>
    /\ VecLen(result) = width * height
    /\ \A i \in 0..(width * height - 1) :
         result[i] = IF dilated[i] = 1 /\ input_mask[i] > 10
                     THEN input_mask[i] ELSE 0

\* The output is the input where the average over the history differs from it.
C5_Witness ==
  /\ ValidCall
  /\ Len(history) = 2
  /\ \E i \in 0..(width * height - 1) :
       /\ result[i] = 80
       /\ SumAt(history, i) # 2 * result[i]

BlockScenario ==
  /\ ValidCall
  /\ width = 10 /\ height = 10 /\ max_history = 1
  /\ hist_before = <<>>
  /\ input_mask = MaskOf("block", 10, 10)
  /\ clx = 5 /\ cly = 5

InBlock(i) == i % 10 >= 2 /\ i % 10 <= 7 /\ i \div 10 >= 2 /\ i \div 10 <= 7

\* C6 as claimed: in the block scenario the output is 0.8 on a non-empty part
\* of the block and 0 everywhere else.
C6_BlockPreserved ==
  BlockScenario =>
    /\ \E i \in 0..99 : result[i] = 80
    /\ \A i \in 0..99 : result[i] = 0 \/ (result[i] = 80 /\ InBlock(i))

\* C6 as amended: in the block scenario the output is 0 everywhere (every
\* pixel of a 10x10 grid has an out-of-grid position within the radius 5 of
\* the erosion kernel, so the eroded mask is empty).
C6_BlockErodedAway ==
  BlockScenario => (eroded = Zeros(100) /\ result = Zeros(100))

C6_Witness == BlockScenario /\ result = Zeros(100)

----------------------------------------------------------------------------
(* Properties of flood_fill, under FloodSpec and FairFloodSpec *)

FloodDone == pc = "done"
SeedIsFg == img[start_y * width + start_x] = 1

\* C7: started on a foreground pixel, flood_fill marks exactly the
\* 4-connected component of that pixel.
C7_FillsSeedComponent ==
  (FloodDone /\ SeedIsFg)
    => out = Indicator(width, height,
                       Component4(width, height, img, <<start_x, start_y>>))

\* The fill leaves out foreground that touches the component only
\* diagonally, and the component is more than a straight run.
C7_Witness ==
  /\ FloodDone /\ SeedIsFg
  /\ \E i \in DOMAIN out : \E j \in DOMAIN out :
       /\ out[i] = 1 /\ out[j] = 0 /\ img[j] = 1
       /\ Abs((i % width) - (j % width)) = 1
       /\ Abs((i \div width) - (j \div width)) = 1
  /\ Cardinality({i \in DOMAIN out : out[i] = 1}) >= 3

\* C9: started on a background pixel, flood_fill marks exactly the
\* 4-connected component of the foreground pixel nearest to the start
\* (Chebyshev distance 1..20, then smallest row, then smallest column), and
\* nothing when no foreground pixel lies within distance 20.
C9_FillsNearestComponent ==
  (FloodDone /\ ~SeedIsFg)
    => out = Indicator(width, height,
                       NearestComponent(width, height, img, start_x, start_y))

\* Two foreground pixels at the same smallest distance, only one filled.
C9_Witness ==
  /\ FloodDone /\ ~SeedIsFg
  /\ \E p \in InReach(width, height, img, start_x, start_y) :
       /\ p # NearestFg(width, height, img, start_x, start_y)
       /\ Cheb(p, start_x, start_y)
            = Cheb(NearestFg(width, height, img, start_x, start_y),
                   start_x, start_y)
       /\ out[p[2] * width + p[1]] = 0
  /\ \E i \in DOMAIN out : out[i] = 1

\* C10: no pixel is marked and expanded more than once, and the loop ends.
C10_FloodTerminates ==
  /\ [](\A i \in DOMAIN expanded : expanded[i] <= 1)
  /\ <>FloodDone

\* A pixel sat in the queue several times and the fill still ended.
C10_Witness ==
  /\ FloodDone
  /\ Cardinality({i \in DOMAIN out : out[i] = 1}) >= 4

----------------------------------------------------------------------------
(* Properties of erode, under MorphSpec *)

\* C8: erode's output is 1 exactly at the pixels whose disk neighbours
\* (dx*dx + dy*dy <= r*r) are all in the grid and all 1; so for an
\* all-foreground image and r > 0 it is 0 exactly at the pixels less than r
\* away from the first or last row or column.
C8_ErosionBorderPolicy ==
  morph_op = "erode" =>
    /\ \A i \in 0..(width * height - 1) :
         morph_out[i] = 0 <=>
           \E dx \in (0 - radius)..radius : \E dy \in (0 - radius)..radius :
             /\ dx * dx + dy * dy <= radius * radius
             /\ \/ ~InGrid(width, height, (i % width) + dx,
                            (i \div width) + dy)
                \/ img[((i \div width) + dy) * width + ((i % width) + dx)] = 0
    /\ (radius > 0 /\ \A i \in DOMAIN img : img[i] = 1) =>
         \A i \in 0..(width * height - 1) :
           morph_out[i] = 0 <=>
             \/ (i % width) < radius
             \/ (i % width) > width - 1 - radius
             \/ (i \div width) < radius
             \/ (i \div width) > height - 1 - radius

\* An all-foreground image keeps its centre and loses its border.
C8_Witness ==
  /\ morph_op = "erode"
  /\ radius = 2
  /\ \A i \in DOMAIN img : img[i] = 1
  /\ \E i \in DOMAIN morph_out : morph_out[i] = 1
  /\ \E i \in DOMAIN morph_out : morph_out[i] = 0

====
